---- MODULE Spec2Model ----
(***************************************************************************)
(* Model of src/utils/coldRoomCalculations.ts: calculateColdRoomLoad, the  *)
(* raw form records it is handed, and the product table it reads.          *)
(*                                                                         *)
(* JavaScript numbers are modelled as decimal floating-point values with   *)
(* six significant digits, truncated after every operation, together with  *)
(* NaN and the two infinities, which propagate as IEEE 754 prescribes.     *)
(* The sign of zero is not modelled.                                       *)
(***************************************************************************)
EXTENDS Integers, Sequences, FiniteSets, TLC

(***************************************************************************)
(* Numbers                                                                 *)
(***************************************************************************)
Prec == 10^6
PrecLow == 10^5

NaN == [k |-> "nan", s |-> 1, m |-> 0, e |-> 0]
Inf(sgn) == [k |-> "inf", s |-> sgn, m |-> 0, e |-> 0]
Zero == [k |-> "num", s |-> 1, m |-> 0, e |-> 0]

\* Operands are evaluated once, before the operation is applied.
Strict1(F(_), a) == CHOOSE r \in {F(x) : x \in {a}} : TRUE
Strict2(F(_, _), a, b) == CHOOSE r \in {F(x[1], x[2]) : x \in {<<a, b>>}} : TRUE
Strict3(F(_, _, _), a, b, c) ==
    CHOOSE r \in {F(x[1], x[2], x[3]) : x \in {<<a, b, c>>}} : TRUE

RECURSIVE NormMag(_, _, _)
\* sgn * mag * 10^ex with the magnitude brought to six digits (truncating).
NormMag(sgn, mag, ex) ==
    IF mag = 0 THEN Zero
    ELSE IF mag >= Prec THEN NormMag(sgn, mag \div 10, ex + 1)
    ELSE IF mag < PrecLow THEN NormMag(sgn, mag * 10, ex - 1)
    ELSE [k |-> "num", s |-> sgn, m |-> mag, e |-> ex]

Abs(i) == IF i < 0 THEN -i ELSE i
Sgn(i) == IF i < 0 THEN -1 ELSE 1

\* The number i * 10^ex, as a numeric literal of the source denotes it.
Dec(i, ex) == NormMag(Sgn(i), Abs(i), ex)

IsNaN(a) == a.k = "nan"
IsInf(a) == a.k = "inf"
IsNum(a) == a.k = "num"
IsZero(a) == a.k = "num" /\ a.m = 0
IsFinite(a) == a.k = "num"

NegOf(a) == IF IsNaN(a) \/ IsZero(a) THEN a ELSE [a EXCEPT !.s = -a.s]

MulOf(a, b) ==
    IF IsNaN(a) \/ IsNaN(b) THEN NaN
    ELSE IF IsInf(a) \/ IsInf(b)
         THEN IF IsZero(a) \/ IsZero(b) THEN NaN ELSE Inf(a.s * b.s)
    ELSE IF a.m = 0 \/ b.m = 0 THEN Zero
    ELSE LET X == (a.m \div 1000) * b.m
             Y == (a.m % 1000) * b.m
         IN  NormMag(a.s * b.s, X + (Y \div 1000), a.e + b.e + 3)
Mul(a, b) == Strict2(MulOf, a, b)

RECURSIVE LongDiv(_, _, _, _)
\* n more decimal digits of the quotient q, the remainder being r.
LongDiv(q, r, d, n) ==
    IF n = 0 THEN q
    ELSE LongDiv(q * 10 + ((r * 10) \div d), (r * 10) % d, d, n - 1)

DivOf(a, b) ==
    IF IsNaN(a) \/ IsNaN(b) THEN NaN
    ELSE IF IsInf(a) THEN (IF IsInf(b) THEN NaN ELSE Inf(a.s * b.s))
    ELSE IF IsInf(b) THEN Zero
    ELSE IF b.m = 0 THEN (IF a.m = 0 THEN NaN ELSE Inf(a.s))
    ELSE IF a.m = 0 THEN Zero
    ELSE NormMag(a.s * b.s,
                 LongDiv(a.m \div b.m, a.m % b.m, b.m, 7),
                 a.e - b.e - 7)
Div(a, b) == Strict2(DivOf, a, b)

Pow10(n) == 10^n

\* a + b for finite non-zero a, b with a.e >= b.e: three guard digits.
AddAligned(a, b) ==
    LET d == a.e - b.e
        A == a.m * 1000
        B == IF d > 9 THEN 0 ELSE (b.m * 1000) \div Pow10(d)
        S == a.s * A + b.s * B
    IN  NormMag(Sgn(S), Abs(S), a.e - 3)

AddOf(a, b) ==
    IF IsNaN(a) \/ IsNaN(b) THEN NaN
    ELSE IF IsInf(a) THEN (IF IsInf(b) /\ a.s # b.s THEN NaN ELSE a)
    ELSE IF IsInf(b) THEN b
    ELSE IF a.m = 0 THEN b
    ELSE IF b.m = 0 THEN a
    ELSE IF a.e >= b.e THEN AddAligned(a, b) ELSE AddAligned(b, a)
Add(a, b) == Strict2(AddOf, a, b)

Neg(a) == Strict1(NegOf, a)
Sub(a, b) == Add(a, Neg(b))

RECURSIVE Isqrt(_, _, _)
\* The largest r in lo..hi with r * r <= n (lo * lo <= n is given).
IsqrtOf(n, lo, hi) ==
    IF lo >= hi THEN lo
    ELSE LET mid == (lo + hi + 1) \div 2
         IN  IF mid * mid <= n THEN Isqrt(n, mid, hi) ELSE Isqrt(n, lo, mid - 1)
Isqrt(n, lo, hi) == Strict3(IsqrtOf, n, lo, hi)

\* The next decimal digit of a square root r with remainder rem (= n - r*r).
SqrtDigit(r, rem) ==
    CHOOSE d \in 0..9 :
        /\ 20 * r * d + d * d <= 100 * rem
        /\ (d = 9 \/ 20 * r * (d + 1) + (d + 1) * (d + 1) > 100 * rem)

\* The root and the remainder with one more digit.
SqrtStepOf(r, rem) ==
    LET d == SqrtDigit(r, rem)
    IN  <<10 * r + d, 100 * rem - (20 * r * d + d * d)>>
SqrtStep(r, rem) == Strict2(SqrtStepOf, r, rem)

SqrtMag(M, r0) == SqrtStep(SqrtStep(r0, M - r0 * r0)[1], SqrtStep(r0, M - r0 * r0)[2])[1]

SqrtOf(a) ==
    IF IsNaN(a) THEN NaN
    ELSE IF IsInf(a) THEN (IF a.s = 1 THEN a ELSE NaN)
    ELSE IF a.m = 0 THEN Zero
    ELSE IF a.s = -1 THEN NaN
    ELSE LET odd == a.e % 2 = 1
             M  == IF odd THEN a.m * 1000 ELSE a.m * 100
             E  == IF odd THEN a.e - 3 ELSE a.e - 2
         IN  NormMag(1, Strict2(SqrtMag, M, Isqrt(M, 0, 31622)), (E \div 2) - 2)
Sqrt(a) == Strict1(SqrtOf, a)

\* a < b as JavaScript compares numbers: false when either is NaN.
LtOf(a, b) ==
    IF IsNaN(a) \/ IsNaN(b) THEN FALSE
    ELSE IF a = b THEN FALSE
    ELSE IF IsInf(a) THEN a.s = -1
    ELSE IF IsInf(b) THEN b.s = 1
    ELSE LET df == Sub(a, b) IN df.m # 0 /\ df.s = -1
Lt(a, b) == Strict2(LtOf, a, b)

LeOf(a, b) == ~IsNaN(a) /\ ~IsNaN(b) /\ (a = b \/ Lt(a, b))
Le(a, b) == Strict2(LeOf, a, b)

\* JavaScript truthiness of a number: NaN and zero are falsy.
Truthy(a) == ~IsNaN(a) /\ ~IsZero(a)

\* x || d on numbers.
OrElseOf(a, d) == IF Truthy(a) THEN a ELSE d
OrElse(a, d) == Strict2(OrElseOf, a, d)


(***************************************************************************)
(* Raw inputs.  A text field holds a sequence of characters or is absent   *)
(* (undefined); a key field holds a string or is absent; the thickness is  *)
(* a JavaScript number or absent.                                          *)
(***************************************************************************)
Undef == [t |-> "undef", v |-> <<>>]
Text(chars) == [t |-> "str", v |-> chars]
UndefKey == [t |-> "undef", v |-> ""]
Key(str) == [t |-> "str", v |-> str]
UndefNum == [t |-> "undef", n |-> Zero]
Number(x) == [t |-> "num", n |-> x]

IsDigit(c) == c \in {"0", "1", "2", "3", "4", "5", "6", "7", "8", "9"}
DigitVal(c) ==
    CASE c = "0" -> 0 [] c = "1" -> 1 [] c = "2" -> 2 [] c = "3" -> 3
      [] c = "4" -> 4 [] c = "5" -> 5 [] c = "6" -> 6 [] c = "7" -> 7
      [] c = "8" -> 8 [] c = "9" -> 9

IsSpace(c) == c \in {" ", "\t", "\n"}

RECURSIVE SkipSpace(_, _)
SkipSpace(s, i) ==
    IF i <= Len(s) /\ IsSpace(s[i]) THEN SkipSpace(s, i + 1) ELSE i

RECURSIVE ScanDigits(_, _, _, _, _)
\* Reads the digits of s from i on: acc collects the first eight significant
\* ones, dropped counts the later ones, count all of them.
ScanDigits(s, i, acc, dropped, count) ==
    IF i <= Len(s) /\ IsDigit(s[i])
    THEN IF acc < 10^8
         THEN ScanDigits(s, i + 1, acc * 10 + DigitVal(s[i]), dropped, count + 1)
         ELSE ScanDigits(s, i + 1, acc, dropped + 1, count + 1)
    ELSE [acc |-> acc, dropped |-> dropped, count |-> count, next |-> i]

InfinityChars == <<"I", "n", "f", "i", "n", "i", "t", "y">>

StartsWith(s, i, w) ==
    /\ i + Len(w) - 1 <= Len(s)
    /\ \A j \in 1..Len(w) : s[i + j - 1] = w[j]

\* The exponent part at position p of s, 0 when there is none.
ExponentAt(s, p) ==
    IF p <= Len(s) /\ s[p] \in {"e", "E"}
    THEN LET neg == p + 1 <= Len(s) /\ s[p + 1] = "-"
             q   == IF p + 1 <= Len(s) /\ s[p + 1] \in {"+", "-"} THEN p + 2 ELSE p + 1
             r   == ScanDigits(s, q, 0, 0, 0)
         IN  IF r.count = 0 THEN 0 ELSE IF neg THEN -r.acc ELSE r.acc
    ELSE 0

\* The value of a literal with sign sgn, integer digits ip, fraction digits fp.
ParseNumber(s, sgn, ip, fp) ==
    IF ip.count + fp.count = 0 THEN NaN
    ELSE NormMag(sgn, fp.acc, fp.dropped - fp.count + ExponentAt(s, fp.next))

ParseFraction(s, sgn, ip) ==
    IF ip.next <= Len(s) /\ s[ip.next] = "."
    THEN ParseNumber(s, sgn, ip, ScanDigits(s, ip.next + 1, ip.acc, ip.dropped, 0))
    ELSE ParseNumber(s, sgn, ip, [ip EXCEPT !.count = 0])

ParseUnsigned(s, i, sgn) ==
    IF StartsWith(s, i, InfinityChars) THEN Inf(sgn)
    ELSE Strict3(ParseFraction, s, sgn, ScanDigits(s, i, 0, 0, 0))

ParseSigned(s, i) ==
    IF i <= Len(s) /\ s[i] = "-" THEN ParseUnsigned(s, i + 1, -1)
    ELSE IF i <= Len(s) /\ s[i] = "+" THEN ParseUnsigned(s, i + 1, 1)
    ELSE ParseUnsigned(s, i, 1)

\* parseFloat on a string: the longest numeric prefix after leading blanks.
ParseChars(s) == Strict2(ParseSigned, s, SkipSpace(s, 1))

\* parseFloat(x): an absent field reads as the string "undefined".
parseFloat(raw) == IF raw.t = "undef" THEN NaN ELSE ParseChars(raw.v)

(***************************************************************************)
(* The lookup tables (constants/thermalData, constants/productData).       *)
(***************************************************************************)
THERMAL_DATA ==
    [uFactors |->
        [PUF |-> (Dec(50, 0) :> Dec(45, -2)) @@ (Dec(100, 0) :> Dec(25, -2))
                  @@ (Dec(150, 0) :> Dec(17, -2)),
         EPS |-> (Dec(100, 0) :> Dec(35, -2)) @@ (Dec(150, 0) :> Dec(24, -2))],
     airChangeRates |-> [coldRoom |-> Dec(4, -1)],
     airDensity |-> Dec(12, -1),
     airSpecificHeat |-> Dec(1006, -3),
     personHeatLoad |-> Dec(407, -3),
     safetyFactor |-> Dec(12, -1)]

ProductTable ==
    [x \in {"General Food Items", "Fruits"} |->
        IF x = "Fruits"
        THEN [density |-> Dec(400, 0), storageEfficiency |-> Dec(6, -1),
              specificHeatAbove |-> Dec(38, -1)]
        ELSE [density |-> Dec(500, 0), storageEfficiency |-> Dec(65, -2),
              specificHeatAbove |-> Dec(35, -1)]]

STORAGE_FACTORS ==
    [x \in {"Palletized", "Bulk"} |->
        IF x = "Bulk" THEN Dec(1, 0) ELSE Dec(8, -1)]

(***************************************************************************)
(* State                                                                   *)
(***************************************************************************)
VARIABLES
    PRODUCTS,        \* the product table, shared by every call
    roomData,        \* the three raw records the caller is filling in
    conditionsData,
    productData,
    calls,           \* the calls made so far: arguments and returned result
    edits,           \* number of field edits made
    writes           \* number of writes the caller made into a result

vars == <<PRODUCTS, roomData, conditionsData, productData, calls, edits, writes>>

(***************************************************************************)
(* calculateColdRoomLoad                                                   *)
(***************************************************************************)
\* Lines 40-60: every local of the normalization.
Normalize(room, cond, prod) ==
    [length              |-> OrElse(parseFloat(room.length), Dec(50, -1)),
     width               |-> OrElse(parseFloat(room.width), Dec(40, -1)),
     height              |-> OrElse(parseFloat(room.height), Dec(30, -1)),
     doorWidth           |-> OrElse(parseFloat(room.doorWidth), Dec(12, -1)),
     doorHeight          |-> OrElse(parseFloat(room.doorHeight), Dec(21, -1)),
     doorOpenings        |-> OrElse(parseFloat(room.doorOpenings), Dec(20, 0)),
     insulationThickness |-> IF room.insulationThickness.t = "undef"
                             THEN Dec(100, 0)
                             ELSE OrElse(room.insulationThickness.n, Dec(100, 0)),
     externalTemp        |-> OrElse(parseFloat(cond.externalTemp), Dec(35, 0)),
     internalTemp        |-> OrElse(parseFloat(cond.internalTemp), Dec(4, 0)),
     operatingHours      |-> OrElse(parseFloat(cond.operatingHours), Dec(24, 0)),
     pullDownTime        |-> OrElse(parseFloat(cond.pullDownTime), Dec(6, 0)),
     dailyLoad           |-> OrElse(parseFloat(prod.dailyLoad), Dec(2000, 0)),
     incomingTemp        |-> OrElse(parseFloat(prod.incomingTemp), Dec(25, 0)),
     outgoingTemp        |-> OrElse(parseFloat(prod.outgoingTemp), Dec(4, 0)),
     numberOfPeople      |-> OrElse(parseFloat(prod.numberOfPeople), Dec(2, 0)),
     workingHours        |-> OrElse(parseFloat(prod.workingHours), Dec(6, 0)),
     lightingWattage     |-> OrElse(parseFloat(prod.lightingWattage), Dec(200, 0)),
     equipmentLoad       |-> OrElse(parseFloat(prod.equipmentLoad), Dec(500, 0))]

\* Line 46: roomData.insulationType || 'PUF'.
InsulationType(room) ==
    IF room.insulationType.t = "undef" \/ room.insulationType.v = ""
    THEN "PUF" ELSE room.insulationType.v

\* A raw key as a property name: an absent one reads "undefined".
KeyName(raw) == IF raw.t = "undef" THEN "undefined" ELSE raw.v

\* Line 75: THERMAL_DATA.uFactors[type]?.[thickness] || 0.25.
UFactor(type, thickness) ==
    IF type \in DOMAIN THERMAL_DATA.uFactors
    THEN IF thickness \in DOMAIN THERMAL_DATA.uFactors[type]
         THEN OrElse(THERMAL_DATA.uFactors[type][thickness], Dec(25, -2))
         ELSE Dec(25, -2)
    ELSE Dec(25, -2)

\* A lookup that falls back to the wrong record.
ProductRefFallsBackToFruits(prod) ==
    IF KeyName(prod.productType) \in DOMAIN PRODUCTS
    THEN KeyName(prod.productType) ELSE "Fruits"

\* Line 78: the record of PRODUCTS the call uses, by its key in the table.
ProductRef(prod) ==
    IF KeyName(prod.productType) \in DOMAIN PRODUCTS
    THEN KeyName(prod.productType) ELSE "General Food Items"

\* Line 79.
StorageFactor(prod) ==
    IF KeyName(prod.storageType) \in DOMAIN STORAGE_FACTORS
    THEN OrElse(STORAGE_FACTORS[KeyName(prod.storageType)], STORAGE_FACTORS["Palletized"])
    ELSE STORAGE_FACTORS["Palletized"]

\* Wall area of one pair of walls only.
AreasOfTwoWalls(n) ==
    [wall    |-> Mul(Add(n.length, n.width), n.height),
     ceiling |-> Mul(n.length, n.width),
     floor   |-> Mul(n.length, n.width),
     door    |-> Mul(n.doorWidth, n.doorHeight)]

\* Lines 63-67.
Areas(n) ==
    [wall    |-> Mul(Mul(Dec(2, 0), Add(n.length, n.width)), n.height),
     ceiling |-> Mul(n.length, n.width),
     floor   |-> Mul(n.length, n.width),
     door    |-> Mul(n.doorWidth, n.doorHeight)]

Volume(n) == Mul(Mul(n.length, n.width), n.height)

\* Line 70.
TemperatureDifference(n) == Sub(n.externalTemp, n.internalTemp)

\* Lines 82-83.
MaxStorageCapacity(n, product, storageFactor) ==
    Mul(Mul(Mul(Volume(n), product.density), product.storageEfficiency), storageFactor)

StorageUtilization(n, maxStorageCapacity) ==
    Mul(Div(n.dailyLoad, maxStorageCapacity), Dec(100, 0))

\* A transmission load that divides by the temperature difference.
TransmissionLoadDividingByDifference(n, uFactor) ==
    LET td == Sub(n.externalTemp, n.internalTemp)
        walls   == Div(Div(Mul(uFactor, Mul(Mul(Dec(2, 0), Add(n.length, n.width)),
                                            n.height)), td), Dec(1000, 0))
        ceiling == Div(Div(Mul(uFactor, Mul(n.length, n.width)), td), Dec(1000, 0))
        floor   == Div(Div(Mul(uFactor, Mul(n.length, n.width)), td), Dec(1000, 0))
    IN  [walls |-> walls, ceiling |-> ceiling, floor |-> floor,
         total |-> Add(Add(walls, ceiling), floor)]

\* Lines 86-92.
TransmissionLoad(n, uFactor) ==
    LET td == TemperatureDifference(n)
        a  == Areas(n)
        walls   == Div(Mul(Mul(uFactor, a.wall), td), Dec(1000, 0))
        ceiling == Div(Mul(Mul(uFactor, a.ceiling), td), Dec(1000, 0))
        floor   == Div(Mul(Mul(uFactor, a.floor), td), Dec(1000, 0))
    IN  [walls |-> walls, ceiling |-> ceiling, floor |-> floor,
         total |-> Add(Add(walls, ceiling), floor)]

\* A product load with the two temperatures exchanged.
ProductLoadWarming(n, product) ==
    LET sensibleHeat ==
            Div(Mul(Mul(n.dailyLoad, product.specificHeatAbove),
                    Sub(n.outgoingTemp, n.incomingTemp)),
                Mul(n.pullDownTime, Dec(36, -1)))
    IN  [sensible |-> sensibleHeat, latent |-> Zero, total |-> sensibleHeat]

\* Lines 96-102.
ProductLoad(n, product) ==
    LET sensibleHeat ==
            Div(Mul(Mul(n.dailyLoad, product.specificHeatAbove),
                    Sub(n.incomingTemp, n.outgoingTemp)),
                Mul(n.pullDownTime, Dec(36, -1)))
    IN  [sensible |-> sensibleHeat, latent |-> Zero, total |-> sensibleHeat]

\* Lines 105-106.
AirInfiltrationLoad(n) ==
    Div(Mul(Mul(Mul(Mul(Volume(n), THERMAL_DATA.airDensity),
                    THERMAL_DATA.airSpecificHeat),
                TemperatureDifference(n)),
            THERMAL_DATA.airChangeRates.coldRoom),
        Dec(36, -1))

\* Lines 109-115.
InternalLoads(n) ==
    LET people    == Mul(Mul(n.numberOfPeople, THERMAL_DATA.personHeatLoad),
                         Div(n.workingHours, Dec(24, 0)))
        lighting  == Div(Mul(n.lightingWattage, Div(n.operatingHours, Dec(24, 0))),
                         Dec(1000, 0))
        equipment == Div(n.equipmentLoad, Dec(1000, 0))
    IN  [people |-> people, lighting |-> lighting, equipment |-> equipment,
         total |-> Add(Add(people, lighting), equipment)]

\* A door load spread over the operating hours instead of the day.
DoorLoadPerOperatingHour(n) ==
    Div(Div(Mul(Mul(Mul(n.doorOpenings, Mul(n.doorWidth, n.doorHeight)), Dec(30, -1)),
                Sqrt(Sub(n.externalTemp, n.internalTemp))),
            n.operatingHours),
        Dec(1000, 0))

\* Line 118.
DoorLoad(n) ==
    Div(Div(Mul(Mul(Mul(n.doorOpenings, Areas(n).door), Dec(30, -1)),
                Sqrt(TemperatureDifference(n))),
            Dec(24, 0)),
        Dec(1000, 0))

\* Line 121.
TotalLoad(transmissionLoad, productLoad, airInfiltrationLoad, internalLoads, doorLoad) ==
    Add(Add(Add(Add(transmissionLoad.total, productLoad.total), airInfiltrationLoad),
            internalLoads.total),
        doorLoad)

\* Lines 120-127.
Totals(l) ==
    [totalLoad |-> l,
     totalLoadWithSafety |-> Mul(l, THERMAL_DATA.safetyFactor),
     refrigerationTons |-> Div(Mul(l, THERMAL_DATA.safetyFactor), Dec(3517, -3))]

\* Lines 129-170.  productInfo.properties is the table's own record: the
\* result holds a reference to it, modelled by the record's key in PRODUCTS.
Return(room, prod, n, lk, ld, tt) ==
    [dimensions |-> [length |-> n.length, width |-> n.width, height |-> n.height],
     doorDimensions |-> [width |-> n.doorWidth, height |-> n.doorHeight],
     areas |-> Areas(n),
     volume |-> Volume(n),
     storageCapacity |->
        [maximum |-> lk.maxStorageCapacity,
         utilization |-> StorageUtilization(n, lk.maxStorageCapacity),
         storageFactor |-> lk.storageFactor,
         storageType |-> prod.storageType],
     temperatureDifference |-> TemperatureDifference(n),
     pullDownTime |-> n.pullDownTime,
     construction |-> [type |-> lk.type, thickness |-> n.insulationThickness,
                       uFactor |-> lk.uFactor],
     transmissionLoad |-> ld.transmissionLoad,
     productInfo |->
        [type |-> prod.productType,
         mass |-> n.dailyLoad,
         incomingTemp |-> n.incomingTemp,
         outgoingTemp |-> n.outgoingTemp,
         properties |-> lk.ref],
     productLoad |-> ld.productLoad,
     airChangeRate |-> THERMAL_DATA.airChangeRates.coldRoom,
     airInfiltrationLoad |-> ld.airInfiltrationLoad,
     internalLoads |-> ld.internalLoads,
     doorLoad |-> ld.doorLoad,
     doorOpenings |-> n.doorOpenings,
     workingHours |-> n.workingHours,
     totalLoad |-> tt.totalLoad,
     totalLoadWithSafety |-> tt.totalLoadWithSafety,
     refrigerationTons |-> tt.refrigerationTons]

\* Lines 73-82: what the call reads from the tables.
Lookups(room, prod, n) ==
    [type |-> InsulationType(room),
     uFactor |-> UFactor(InsulationType(room), n.insulationThickness),
     ref |-> ProductRef(prod),
     storageFactor |-> StorageFactor(prod),
     maxStorageCapacity |->
        MaxStorageCapacity(n, PRODUCTS[ProductRef(prod)], StorageFactor(prod))]

\* Lines 86-118: the five loads.
Loads(n, lk) ==
    [transmissionLoad |-> TransmissionLoad(n, lk.uFactor),
     productLoad |-> ProductLoad(n, PRODUCTS[lk.ref]),
     airInfiltrationLoad |-> AirInfiltrationLoad(n),
     internalLoads |-> InternalLoads(n),
     doorLoad |-> DoorLoad(n)]

Aggregate(room, prod, n, lk, ld) ==
    Return(room, prod, n, lk, ld,
           Strict1(Totals, TotalLoad(ld.transmissionLoad, ld.productLoad,
                                     ld.airInfiltrationLoad, ld.internalLoads,
                                     ld.doorLoad)))

WithLookups(room, prod, n, lk) ==
    Aggregate(room, prod, n, lk, Strict2(Loads, n, lk))

WithLocals(room, prod, n) ==
    WithLookups(room, prod, n, Strict3(Lookups, room, prod, n))

\* Lines 34-171.
calculateColdRoomLoad(room, cond, prod) ==
    WithLocals(room, prod, Strict3(Normalize, room, cond, prod))

(***************************************************************************)
(* The caller: a form whose fields are edited one at a time, a call of     *)
(* calculateColdRoomLoad on the form's records, and writes into the        *)
(* result the caller received.                                             *)
(***************************************************************************)
MaxEdits == 2
MaxCalls == 3
MaxWrites == 1

RoomText == {"length", "width", "height", "doorWidth", "doorHeight", "doorOpenings"}
ConditionsText == {"externalTemp", "internalTemp", "operatingHours", "pullDownTime"}
ProductText == {"dailyLoad", "incomingTemp", "outgoingTemp", "numberOfPeople",
                "workingHours", "lightingWattage", "equipmentLoad"}

\* What a user may type into a text field.
Typed(f) ==
    CASE f = "length"          -> {<<"a", "b", "c">>, <<"8">>, <<"-", "5">>, InfinityChars}
      [] f = "width"           -> {<<"0">>}
      [] f = "height"          -> {<<"3", ".", "5">>}
      [] f = "doorWidth"       -> {<<"1", ".", "5", "m">>}
      [] f = "doorHeight"      -> {<<"0">>}
      [] f = "doorOpenings"    -> {<<"-", "2">>}
      [] f = "externalTemp"    -> {<<"0">>, <<"2">>, <<"1", "0">>,
                                   <<"3", "5", ".", "0", "0", "0", "4">>,
                                   <<"3", "5", ".", "0", "0", "0", "5">>}
      [] f = "internalTemp"    -> {<<"1", "0">>, <<"-", "5">>}
      [] f = "operatingHours"  -> {<<"1", "2">>}
      [] f = "pullDownTime"    -> {<<"1", "2">>, <<"-", "3">>}
      [] f = "dailyLoad"       -> {<<"3", "0", "0", "0">>}
      [] f = "incomingTemp"    -> {<<"2">>, <<"3", "0">>}
      [] f = "outgoingTemp"    -> {<<"1">>}
      [] f = "numberOfPeople"  -> {<<"4">>}
      [] f = "workingHours"    -> {<<"8">>}
      [] f = "lightingWattage" -> {<<"4", "0", "0">>}
      [] f = "equipmentLoad"   -> {<<" ", "1", "e", "3">>}

InsulationTypes == {"EPS", "XYZ"}
ProductTypes == {"Fruits", "Unknown Product", "General Food Items"}
StorageTypes == {"Bulk"}
Thicknesses == {Dec(50, 0)}

\* A form with every field absent, and one with every field empty.
AbsentRoom ==
    [length |-> Undef, width |-> Undef, height |-> Undef, doorWidth |-> Undef,
     doorHeight |-> Undef, doorOpenings |-> Undef, insulationType |-> UndefKey,
     insulationThickness |-> UndefNum]
AbsentConditions ==
    [externalTemp |-> Undef, internalTemp |-> Undef, operatingHours |-> Undef,
     pullDownTime |-> Undef]
AbsentProduct ==
    [productType |-> UndefKey, dailyLoad |-> Undef, incomingTemp |-> Undef,
     outgoingTemp |-> Undef, storageType |-> UndefKey, numberOfPeople |-> Undef,
     workingHours |-> Undef, lightingWattage |-> Undef, equipmentLoad |-> Undef]
EmptyRoom ==
    [length |-> Text(<<>>), width |-> Text(<<>>), height |-> Text(<<>>),
     doorWidth |-> Text(<<>>), doorHeight |-> Text(<<>>), doorOpenings |-> Text(<<>>),
     insulationType |-> Key(""), insulationThickness |-> Number(Zero)]
EmptyConditions ==
    [externalTemp |-> Text(<<>>), internalTemp |-> Text(<<>>),
     operatingHours |-> Text(<<>>), pullDownTime |-> Text(<<>>)]
EmptyProduct ==
    [productType |-> Key(""), dailyLoad |-> Text(<<>>), incomingTemp |-> Text(<<>>),
     outgoingTemp |-> Text(<<>>), storageType |-> Key(""), numberOfPeople |-> Text(<<>>),
     workingHours |-> Text(<<>>), lightingWattage |-> Text(<<>>),
     equipmentLoad |-> Text(<<>>)]

\* A form filled in with valid positive numbers.
FilledRoom ==
    [length |-> Text(<<"6">>), width |-> Text(<<"5">>), height |-> Text(<<"3">>),
     doorWidth |-> Text(<<"1", ".", "2">>), doorHeight |-> Text(<<"2", ".", "1">>),
     doorOpenings |-> Text(<<"2", "0">>), insulationType |-> Key("PUF"),
     insulationThickness |-> Number(Dec(100, 0))]
FilledConditions ==
    [externalTemp |-> Text(<<"3", "5">>), internalTemp |-> Text(<<"4">>),
     operatingHours |-> Text(<<"2", "4">>), pullDownTime |-> Text(<<"6">>)]
FilledProduct ==
    [productType |-> Key("General Food Items"), dailyLoad |-> Text(<<"2", "5", "0", "0">>),
     incomingTemp |-> Text(<<"2", "5">>), outgoingTemp |-> Text(<<"4">>),
     storageType |-> Key("Palletized"), numberOfPeople |-> Text(<<"2">>),
     workingHours |-> Text(<<"6">>), lightingWattage |-> Text(<<"2", "0", "0">>),
     equipmentLoad |-> Text(<<"5", "0", "0">>)]

Init ==
    /\ PRODUCTS = ProductTable
    /\ \/ /\ roomData = AbsentRoom
          /\ conditionsData = AbsentConditions
          /\ productData = AbsentProduct
       \/ /\ roomData = EmptyRoom
          /\ conditionsData = EmptyConditions
          /\ productData = EmptyProduct
       \/ /\ roomData = FilledRoom
          /\ conditionsData = FilledConditions
          /\ productData = FilledProduct
    /\ calls = {}
    /\ edits = 0
    /\ writes = 0

Edited ==
    /\ edits < MaxEdits
    /\ edits' = edits + 1
    /\ UNCHANGED <<PRODUCTS, calls, writes>>

EditRoom ==
    /\ Edited
    /\ \E f \in RoomText : \E v \in Typed(f) :
          roomData' = [roomData EXCEPT ![f] = Text(v)]
    /\ UNCHANGED <<conditionsData, productData>>

EditInsulationType ==
    /\ Edited
    /\ \E v \in InsulationTypes :
          roomData' = [roomData EXCEPT !.insulationType = Key(v)]
    /\ UNCHANGED <<conditionsData, productData>>

EditInsulationThickness ==
    /\ Edited
    /\ \E x \in Thicknesses :
          roomData' = [roomData EXCEPT !.insulationThickness = Number(x)]
    /\ UNCHANGED <<conditionsData, productData>>

EditConditions ==
    /\ Edited
    /\ \E f \in ConditionsText : \E v \in Typed(f) :
          conditionsData' = [conditionsData EXCEPT ![f] = Text(v)]
    /\ UNCHANGED <<roomData, productData>>

EditProduct ==
    /\ Edited
    /\ \E f \in ProductText : \E v \in Typed(f) :
          productData' = [productData EXCEPT ![f] = Text(v)]
    /\ UNCHANGED <<roomData, conditionsData>>

EditProductType ==
    /\ Edited
    /\ \E v \in ProductTypes :
          productData' = [productData EXCEPT !.productType = Key(v)]
    /\ UNCHANGED <<roomData, conditionsData>>

EditStorageType ==
    /\ Edited
    /\ \E v \in StorageTypes :
          productData' = [productData EXCEPT !.storageType = Key(v)]
    /\ UNCHANGED <<roomData, conditionsData>>

\* A call that scales the looked-up record in place.
ProductsAfterCallScaling(room, cond, prod) ==
    [PRODUCTS EXCEPT ![ProductRef(prod)].specificHeatAbove = Mul(@, Dec(2, 0))]

\* The product table after a call: the function writes to none of its tables.
ProductsAfterCall(room, cond, prod) == PRODUCTS

\* A call of calculateColdRoomLoad on the form's records.  calls records the
\* arguments, the returned result and when the call was made (the number of
\* edits before it).
Calculate ==
    /\ Cardinality(calls) < MaxCalls
    /\ calls' = calls \cup
          {[room |-> roomData, cond |-> conditionsData, prod |-> productData,
            res |-> calculateColdRoomLoad(roomData, conditionsData, productData),
            at |-> edits]}
    /\ PRODUCTS' = ProductsAfterCall(roomData, conditionsData, productData)
    /\ UNCHANGED <<roomData, conditionsData, productData, edits, writes>>

\* The caller overwrites a field of productInfo.properties of a result it
\* received: that object is the record of PRODUCTS the call looked up (line 158).
WriteResultProperties ==
    /\ writes < MaxWrites
    /\ \E c \in calls :
          PRODUCTS' = [PRODUCTS EXCEPT
                          ![c.res.productInfo.properties].specificHeatAbove = Dec(1, 0)]
    /\ writes' = writes + 1
    /\ UNCHANGED <<roomData, conditionsData, productData, calls, edits>>

Edit ==
    \/ EditRoom
    \/ EditInsulationType
    \/ EditInsulationThickness
    \/ EditConditions
    \/ EditProduct
    \/ EditProductType
    \/ EditStorageType

\* Callers that only fill in the form and call.
NextCalls == Edit \/ Calculate

Next == Edit \/ Calculate \/ WriteResultProperties

SpecCalls == Init /\ [][NextCalls]_vars

Spec == Init /\ [][Next]_vars

(***************************************************************************)
(* Properties                                                              *)
(***************************************************************************)
Args(c) == <<c.room, c.cond, c.prod>>
Locals(c) == Normalize(c.room, c.cond, c.prod)
TextFields == RoomText \cup ConditionsText \cup ProductText
RawText(c, f) ==
    IF f \in RoomText THEN c.room[f]
    ELSE IF f \in ConditionsText THEN c.cond[f] ELSE c.prod[f]
Positive(x) == Lt(Zero, x)
NonNegative(x) == Le(Zero, x)

\* The defaults the specification documents, field by field.
DocumentedDefault(f) ==
    CASE f = "length" -> Dec(50, -1)        [] f = "width" -> Dec(40, -1)
      [] f = "height" -> Dec(30, -1)        [] f = "doorWidth" -> Dec(12, -1)
      [] f = "doorHeight" -> Dec(21, -1)    [] f = "doorOpenings" -> Dec(20, 0)
      [] f = "insulationThickness" -> Dec(100, 0)
      [] f = "externalTemp" -> Dec(35, 0)   [] f = "internalTemp" -> Dec(4, 0)
      [] f = "operatingHours" -> Dec(24, 0) [] f = "pullDownTime" -> Dec(6, 0)
      [] f = "dailyLoad" -> Dec(2000, 0)    [] f = "incomingTemp" -> Dec(25, 0)
      [] f = "outgoingTemp" -> Dec(4, 0)    [] f = "numberOfPeople" -> Dec(2, 0)
      [] f = "workingHours" -> Dec(6, 0)    [] f = "lightingWattage" -> Dec(200, 0)
      [] f = "equipmentLoad" -> Dec(500, 0)

\* Absent, empty, not a number, not finite, or zero.
TextToDefault(raw) ==
    \/ raw.t = "undef"
    \/ raw.v = <<>>
    \/ ~IsFinite(parseFloat(raw))
    \/ IsZero(parseFloat(raw))
ThicknessToDefault(raw) == raw.t = "undef" \/ ~IsFinite(raw.n) \/ IsZero(raw.n)

\* C1: every numeric field whose raw value is absent, empty, non-numeric, NaN,
\* non-finite or zero is normalized to its documented default.
C1_InvalidNormalizedToDefault ==
    \A c \in calls :
        /\ \A f \in TextFields :
              TextToDefault(RawText(c, f)) => Locals(c)[f] = DocumentedDefault(f)
        /\ ThicknessToDefault(c.room.insulationThickness)
              => Locals(c).insulationThickness = DocumentedDefault("insulationThickness")

\* C2: for every input, doorLoad, totalLoad, totalLoadWithSafety and
\* refrigerationTons of the result are numbers, never NaN.
C2_ResultAlwaysNumeric ==
    \A c \in calls :
        /\ ~IsNaN(c.res.doorLoad)
        /\ ~IsNaN(c.res.totalLoad)
        /\ ~IsNaN(c.res.totalLoadWithSafety)
        /\ ~IsNaN(c.res.refrigerationTons)

Within(a, b, tol) ==
    LET d == Sub(a, b) IN Le(d, tol) /\ Le(Neg(d), tol)

\* C3: for every input, totalLoad is within 1e-9 of the sum of the five
\* category totals of the same result, transmissionLoad.total being walls +
\* ceiling + floor and internalLoads.total people + lighting + equipment.
C3_TotalIsSumOfCategories ==
    \A c \in calls :
        LET r == c.res IN
        /\ Within(r.transmissionLoad.total,
                  Add(Add(r.transmissionLoad.walls, r.transmissionLoad.ceiling),
                      r.transmissionLoad.floor), Dec(1, -9))
        /\ Within(r.internalLoads.total,
                  Add(Add(r.internalLoads.people, r.internalLoads.lighting),
                      r.internalLoads.equipment), Dec(1, -9))
        /\ Within(r.totalLoad,
                  Add(Add(Add(Add(r.transmissionLoad.total, r.productLoad.total),
                              r.airInfiltrationLoad), r.internalLoads.total),
                      r.doorLoad), Dec(1, -9))

\* Two calls whose arguments differ at most in externalTemp.
OnlyExternalTempDiffers(c1, c2) ==
    /\ c1.room = c2.room
    /\ c1.prod = c2.prod
    /\ [c1.cond EXCEPT !.externalTemp = c2.cond.externalTemp] = c2.cond

\* C4 as stated: the raw externalTemp of the second call is the greater, the
\* temperature difference is positive in both results, and the transmission,
\* infiltration and door loads of the second are each strictly greater.
C4_StrictlyMonotoneInRawExternalTemp ==
    \A c1 \in calls : \A c2 \in calls :
        ( /\ OnlyExternalTempDiffers(c1, c2)
          /\ Lt(parseFloat(c1.cond.externalTemp), parseFloat(c2.cond.externalTemp))
          /\ Positive(c1.res.temperatureDifference)
          /\ Positive(c2.res.temperatureDifference) )
        => /\ Lt(c1.res.transmissionLoad.total, c2.res.transmissionLoad.total)
           /\ Lt(c1.res.airInfiltrationLoad, c2.res.airInfiltrationLoad)
           /\ Lt(c1.res.doorLoad, c2.res.doorLoad)

PositiveFinite(x) == IsFinite(x) /\ Positive(x)

\* The premise of C4 as amended, for a pair of calls.
C4_Premise(c1, c2) ==
    /\ OnlyExternalTempDiffers(c1, c2)
    /\ Lt(Locals(c1).externalTemp, Locals(c2).externalTemp)
    /\ Positive(c1.res.temperatureDifference)
    /\ Positive(c2.res.temperatureDifference)
    /\ \A f \in RoomText : PositiveFinite(Locals(c1)[f])

\* C4 amended: when the normalized externalTemp of the second call is the
\* greater, the temperature difference is positive in both results and the
\* room and door dimensions and door openings are positive and finite, the
\* transmission, infiltration and door loads of the second are no smaller.
C4_MonotoneInNormalizedExternalTemp ==
    \A c1 \in calls : \A c2 \in calls :
        C4_Premise(c1, c2)
        => /\ Le(c1.res.transmissionLoad.total, c2.res.transmissionLoad.total)
           /\ Le(c1.res.airInfiltrationLoad, c2.res.airInfiltrationLoad)
           /\ Le(c1.res.doorLoad, c2.res.doorLoad)

\* Two calls as C4 amended describes them, the raw externalTemp of the second
\* being 0 and replaced by the default, and the loads of the second greater.
C4_Witness ==
    \E c1 \in calls : \E c2 \in calls :
        /\ C4_Premise(c1, c2)
        /\ Lt(c1.res.transmissionLoad.total, c2.res.transmissionLoad.total)
        /\ Lt(c1.res.airInfiltrationLoad, c2.res.airInfiltrationLoad)
        /\ Lt(c1.res.doorLoad, c2.res.doorLoad)
        /\ c2.cond.externalTemp = Text(<<"0">>)

OnlyProductTypeDiffers(c1, c2) ==
    /\ c1.room = c2.room
    /\ c1.cond = c2.cond
    /\ [c1.prod EXCEPT !.productType = c2.prod.productType] = c2.prod

\* c1 names no product of the table, c2 names "General Food Items".
C5_Premise(c1, c2) ==
    /\ OnlyProductTypeDiffers(c1, c2)
    /\ KeyName(c1.prod.productType) \notin DOMAIN ProductTable
    /\ c2.prod.productType = Key("General Food Items")

\* C5 as stated: a call with a productType that is no key of the product table
\* returns a result identical in every field to that of the same call with
\* productType "General Food Items".
C5_FallbackResultIdentical ==
    \A c1 \in calls : \A c2 \in calls :
        C5_Premise(c1, c2) => c1.res = c2.res

\* C5 amended: the two results are identical in every field except
\* productInfo.type, which repeats the productType each call was given.
C5_FallbackResultIdenticalButType ==
    \A c1 \in calls : \A c2 \in calls :
        C5_Premise(c1, c2)
        => /\ [c1.res EXCEPT !.productInfo.type = c2.res.productInfo.type] = c2.res
           /\ c1.res.productInfo.type = c1.prod.productType
           /\ c2.res.productInfo.type = c2.prod.productType

C5_Witness ==
    \E c1 \in calls : \E c2 \in calls :
        /\ C5_Premise(c1, c2)
        /\ c1.prod.productType = Key("Unknown Product")

\* Every numeric input parses to a positive finite number, the temperature
\* difference is positive and the table constants used are positive.
C6_Premise(c) ==
    /\ \A f \in TextFields : PositiveFinite(parseFloat(RawText(c, f)))
    /\ c.room.insulationThickness.t = "num"
    /\ PositiveFinite(c.room.insulationThickness.n)
    /\ Positive(c.res.temperatureDifference)
    /\ Positive(c.res.construction.uFactor)
    /\ Positive(c.res.storageCapacity.storageFactor)
    /\ \A k \in DOMAIN PRODUCTS :
          /\ Positive(PRODUCTS[k].density)
          /\ Positive(PRODUCTS[k].storageEfficiency)
          /\ Positive(PRODUCTS[k].specificHeatAbove)

C6_Loads(r) ==
    {r.transmissionLoad.walls, r.transmissionLoad.ceiling, r.transmissionLoad.floor,
     r.transmissionLoad.total, r.productLoad.sensible, r.productLoad.total,
     r.airInfiltrationLoad, r.internalLoads.people, r.internalLoads.lighting,
     r.internalLoads.equipment, r.internalLoads.total, r.doorLoad, r.totalLoad}

\* C6 as stated: with valid positive numeric inputs, a positive temperature
\* difference and positive table constants, every load is non-negative.
C6_LoadsNonNegative ==
    \A c \in calls :
        C6_Premise(c) => \A x \in C6_Loads(c.res) : NonNegative(x)

\* C6 amended: the same, when moreover incomingTemp is not below outgoingTemp.
C6_LoadsNonNegativeWhenCooling ==
    \A c \in calls :
        ( /\ C6_Premise(c)
          /\ Le(Locals(c).outgoingTemp, Locals(c).incomingTemp) )
        => \A x \in C6_Loads(c.res) : NonNegative(x)

C6_Witness ==
    \E c \in calls :
        /\ C6_Premise(c)
        /\ Lt(Locals(c).outgoingTemp, Locals(c).incomingTemp)
        /\ c.prod.incomingTemp = Text(<<"3", "0">>)
        /\ Positive(c.res.productLoad.sensible)

\* Every field omitted or invalid: a numeric field absent, not a number or
\* zero, a key field absent or empty.
AllOmittedOrInvalid(c) ==
    /\ \A f \in TextFields :
          \/ RawText(c, f).t = "undef"
          \/ IsNaN(parseFloat(RawText(c, f)))
          \/ IsZero(parseFloat(RawText(c, f)))
    /\ \/ c.room.insulationThickness.t = "undef"
       \/ IsNaN(c.room.insulationThickness.n)
       \/ IsZero(c.room.insulationThickness.n)
    /\ c.room.insulationType \in {UndefKey, Key("")}
    /\ c.prod.productType \in {UndefKey, Key("")}
    /\ c.prod.storageType \in {UndefKey, Key("")}

C8_Deterministic ==
    \A c1 \in calls : \A c2 \in calls :
        Args(c1) = Args(c2) => c1.res = c2.res

\* The same arguments called again after a call with other arguments.
C8_Witness ==
    \E c1 \in calls : \E c2 \in calls : \E c3 \in calls :
        /\ Args(c1) = Args(c2)
        /\ Args(c3) # Args(c1)
        /\ c1.at < c3.at
        /\ c3.at < c2.at

OnlyProductInputsDiffer(c1, c2) ==
    /\ c1.room = c2.room
    /\ [c1.cond EXCEPT !.pullDownTime = c2.cond.pullDownTime] = c2.cond
    /\ [c1.prod EXCEPT !.productType = c2.prod.productType,
                       !.dailyLoad = c2.prod.dailyLoad,
                       !.incomingTemp = c2.prod.incomingTemp,
                       !.outgoingTemp = c2.prod.outgoingTemp] = c2.prod

OnlyInternalInputsDiffer(c1, c2) ==
    /\ c1.room = c2.room
    /\ [c1.cond EXCEPT !.operatingHours = c2.cond.operatingHours] = c2.cond
    /\ [c1.prod EXCEPT !.numberOfPeople = c2.prod.numberOfPeople,
                       !.workingHours = c2.prod.workingHours,
                       !.lightingWattage = c2.prod.lightingWattage,
                       !.equipmentLoad = c2.prod.equipmentLoad] = c2.prod

\* C9: changing only product-load inputs leaves the transmission, infiltration,
\* internal and door loads unchanged; changing only internal-load inputs leaves
\* the transmission, product, infiltration and door loads unchanged.
C9_SubLoadsIndependent ==
    \A c1 \in calls : \A c2 \in calls :
        /\ OnlyProductInputsDiffer(c1, c2)
           => /\ c1.res.transmissionLoad = c2.res.transmissionLoad
              /\ c1.res.airInfiltrationLoad = c2.res.airInfiltrationLoad
              /\ c1.res.internalLoads = c2.res.internalLoads
              /\ c1.res.doorLoad = c2.res.doorLoad
        /\ OnlyInternalInputsDiffer(c1, c2)
           => /\ c1.res.transmissionLoad = c2.res.transmissionLoad
              /\ c1.res.productLoad = c2.res.productLoad
              /\ c1.res.airInfiltrationLoad = c2.res.airInfiltrationLoad
              /\ c1.res.doorLoad = c2.res.doorLoad

\* A change of a product-load input that changed the product load, and a
\* change of an internal-load input that changed the internal loads.
C9_Witness ==
    /\ \E c1 \in calls : \E c2 \in calls :
          /\ OnlyProductInputsDiffer(c1, c2)
          /\ c1.res.productLoad # c2.res.productLoad
    /\ \E c1 \in calls : \E c2 \in calls :
          /\ OnlyInternalInputsDiffer(c1, c2)
          /\ c1.res.internalLoads # c2.res.internalLoads

\* C10: whatever callers write into the results they received, the product
\* table is unchanged and a call with the same arguments returns the same
\* values as before.
C10_TablesIsolatedFromResults ==
    /\ PRODUCTS = ProductTable
    /\ \A c1 \in calls : \A c2 \in calls :
          Args(c1) = Args(c2) => c1.res = c2.res

====
